---- MODULE Spec2Model ----
(***************************************************************************)
(* Session / token lifecycle of the admin front-end: the JWT utilities     *)
(* (lib/auth/token.utils), the NextAuth configuration (auth.config: the    *)
(* credentials provider, the jwt and session callbacks, the mock refresh), *)
(* the route guard (proxy.ts), the login and logout actions and the API    *)
(* client (fetchBase, getAuthToken).                                       *)
(*                                                                         *)
(* Time is in milliseconds, as Date.now(); expiry claims are in seconds.   *)
(* A token string is the sequence of its dot-separated segments, as        *)
(* String.split('.') returns them; an absent (undefined) token is the      *)
(* sequence of no segments, which no string splits into.                   *)
(***************************************************************************)
EXTENDS Integers, Sequences, FiniteSets, TLC

(***************************************************************************)
(* Bounds of the model.                                                    *)
(***************************************************************************)
\* longest token string, in segments
MaxSegs == 4
\* latest clock reading, in minutes
MaxNowMin == 8
\* latest expiry claim, in minutes since the epoch
MaxExpMin == 8

(***************************************************************************)
(* Token strings.                                                          *)
(***************************************************************************)
\* the value of an absent number (null / undefined)
Null == -1

\* JavaScript's undefined token
Absent == << >>

\* One dot-separated segment: the empty string, text that is not
\* base64url-encoded JSON, or an encoded JSON object with or without an
\* exp claim (in seconds).
EmptySeg == [kind |-> "empty", hasExp |-> FALSE, exp |-> 0]
JunkSeg == [kind |-> "junk", hasExp |-> FALSE, exp |-> 0]
NoExpSeg == [kind |-> "json", hasExp |-> FALSE, exp |-> 0]
ExpSeg(e) == [kind |-> "json", hasExp |-> TRUE, exp |-> e]

\* the empty string '' splits into one empty segment
EmptyString == <<EmptySeg>>

ExpSet == {60 * k : k \in 0..MaxExpMin}

PayloadSegs == {EmptySeg, JunkSeg, NoExpSeg} \cup {ExpSeg(e) : e \in ExpSet}
OtherSegs == {EmptySeg, JunkSeg, NoExpSeg}

\* every string of at most MaxSegs segments
Strings ==
  UNION {{s \in [1..n -> PayloadSegs] : \A i \in 1..n : i # 2 => s[i] \in OtherSegs}
         : n \in 1..MaxSegs}

\* string | undefined
TokenSet == {Absent} \cup Strings

\* a well-formed JWT carrying expiry claim e
Jwt(e) == <<NoExpSeg, ExpSeg(e), JunkSeg>>

NowSet == {t \in {k * 60000 + d : k \in 0..MaxNowMin, d \in {-1, 0, 1}} : t >= 0}

(***************************************************************************)
(* jwt-decode: jwtDecode(token) takes the second segment, base64url-       *)
(* decodes it and parses it as JSON; it throws when the segment is missing *)
(* or does not decode.  The number of segments is not checked.             *)
(***************************************************************************)
DecodeFail == [ok |-> FALSE, hasExp |-> FALSE, exp |-> 0]

jwtDecode(token) ==
  IF Len(token) < 2 THEN DecodeFail
  ELSE IF token[2].kind # "json" THEN DecodeFail
  ELSE [ok |-> TRUE, hasExp |-> token[2].hasExp, exp |-> token[2].exp]

(***************************************************************************)
(* lib/auth/token.utils                                                    *)
(***************************************************************************)
REFRESH_BUFFER_MS == 5 * 60 * 1000
MIN_VALID_TIME_MS == 2 * 60 * 1000

\* truthiness of payload.exp: present and not 0
Truthy(payload) == payload.ok /\ payload.hasExp /\ payload.exp # 0

\* decodeToken: the claims, or null (ok = FALSE) when jwtDecode throws
decodeToken(token) == jwtDecode(token)

getTokenExpiry(token) ==
  LET payload == decodeToken(token)
  IN IF Truthy(payload) THEN payload.exp * 1000 ELSE Null

isTokenExpired(token, bufferMs, t) ==
  LET expiry == getTokenExpiry(token)
  IN IF expiry = Null THEN TRUE ELSE t >= expiry - bufferMs

Max(a, b) == IF a >= b THEN a ELSE b

\* getTokenInfo with the expiry instant itself still counted as not expired
getTokenInfo_lateExpiry(token, t) ==
  LET payload == decodeToken(token)
      expiry == IF Truthy(payload) THEN payload.exp * 1000 ELSE Null
      timeUntilExpiry == IF expiry # Null THEN Max(0, expiry - t) ELSE 0
      isExpired == expiry = Null \/ t > expiry
      willExpireSoon == ~isExpired /\ timeUntilExpiry <= REFRESH_BUFFER_MS
  IN [payload |-> payload,
      isExpired |-> isExpired,
      willExpireSoon |-> willExpireSoon,
      timeUntilExpiry |-> timeUntilExpiry]

getTokenInfo(token, t) ==
  LET payload == decodeToken(token)
      expiry == IF Truthy(payload) THEN payload.exp * 1000 ELSE Null
      timeUntilExpiry == IF expiry # Null THEN Max(0, expiry - t) ELSE 0
      isExpired == expiry = Null \/ t >= expiry
      willExpireSoon == ~isExpired /\ timeUntilExpiry <= REFRESH_BUFFER_MS
  IN [payload |-> payload,
      isExpired |-> isExpired,
      willExpireSoon |-> willExpireSoon,
      timeUntilExpiry |-> timeUntilExpiry]

\* !token: undefined or the empty string
Falsy(token) == token = Absent \/ token = EmptyString

validateTokenFormat(token) ==
  IF Falsy(token) THEN [isValid |-> FALSE, error |-> "required"]
  ELSE IF Len(token) # 3 THEN [isValid |-> FALSE, error |-> "parts"]
  ELSE LET payload == decodeToken(token)
       IN IF ~payload.ok THEN [isValid |-> FALSE, error |-> "decode"]
          ELSE IF ~Truthy(payload) THEN [isValid |-> FALSE, error |-> "exp"]
          ELSE [isValid |-> TRUE, error |-> "none"]

\* shouldRefreshToken that forgets the expiring-soon case
shouldRefreshToken_expiredOnly(accessToken, t) ==
  IF Falsy(accessToken) THEN TRUE
  ELSE getTokenInfo(accessToken, t).isExpired

shouldRefreshToken(accessToken, t) ==
  IF Falsy(accessToken) THEN TRUE
  ELSE LET info == getTokenInfo(accessToken, t)
       IN info.isExpired \/ info.willExpireSoon

\* isRefreshTokenValid without the minimum remaining validity
isRefreshTokenValid_noWindow(refreshToken, t) ==
  IF Falsy(refreshToken) THEN FALSE
  ELSE ~getTokenInfo(refreshToken, t).isExpired

isRefreshTokenValid(refreshToken, t) ==
  IF Falsy(refreshToken) THEN FALSE
  ELSE LET info == getTokenInfo(refreshToken, t)
       IN IF info.isExpired THEN FALSE
          ELSE info.timeUntilExpiry >= MIN_VALID_TIME_MS

(***************************************************************************)
(* lib/auth/token.utils, safeTokenRefresh(refreshFn, maxRetries).  An      *)
(* error is its class and code, with the class and code of the error it    *)
(* wraps (originalError); a refresh result is null, or an object that may  *)
(* have an access key.                                                     *)
(***************************************************************************)
\* undefined, where an error is expected
NoErr == [class |-> "none", code |-> "none", origClass |-> "none", origCode |-> "none"]

\* new TokenError(message, code)
TokenError(code) ==
  [class |-> "TokenError", code |-> code, origClass |-> "none", origCode |-> "none"]

\* an Error that is not a TokenError, such as a failed or timed-out fetch
PlainError(code) ==
  [class |-> "Error", code |-> code, origClass |-> "none", origCode |-> "none"]

NoResult == [shape |-> "none", hasAccess |-> FALSE, access |-> Absent]
NullResult == [shape |-> "null", hasAccess |-> FALSE, access |-> Absent]
ObjectResult == [shape |-> "object", hasAccess |-> FALSE, access |-> Absent]
TokenResult(access) == [shape |-> "object", hasAccess |-> TRUE, access |-> access]

\* the for loop's condition
loopContinues_oneFewer(attempt, maxRetries) == attempt < maxRetries

loopContinues(attempt, maxRetries) == attempt <= maxRetries

\* the validation of the result: TRUE when it throws INVALID_REFRESH_RESULT
rejectsResult(result) ==
  /\ result.shape = "object"
  /\ result.hasAccess
  /\ ~Falsy(result.access)
  /\ ~validateTokenFormat(result.access).isValid

\* the errors that are not retried
isAuthenticationError_codeOnly(error) ==
  error.class = "TokenError" /\ error.code = "INVALID_CREDENTIALS"

isAuthenticationError(error) ==
  /\ error.class = "TokenError"
  /\ error.code \in {"INVALID_CREDENTIALS", "INVALID_REFRESH_RESULT"}

RECURSIVE Pow2(_)
Pow2(n) == IF n = 0 THEN 1 ELSE 2 * Pow2(n - 1)

\* the same delay of one second before every attempt
backoffDelay_constant(attempt) == 1000

\* the delay before the next attempt
backoffDelay(attempt) == 1000 * Pow2(attempt)

\* the error thrown after the loop, wrapping an earlier error
terminalError_firstCause(errors) ==
  IF errors = << >>
  THEN TokenError("REFRESH_FAILED")
  ELSE IF errors[1].class = "TokenError" THEN errors[1]
  ELSE [TokenError("REFRESH_FAILED") EXCEPT !.origClass = errors[1].class,
                                            !.origCode = errors[1].code]

\* the error thrown after the loop: lastError is the error of the latest
\* failed attempt, undefined when there was none
terminalError(errors) ==
  IF errors = << >>
  THEN TokenError("REFRESH_FAILED")
  ELSE LET lastError == errors[Len(errors)]
       IN IF lastError.class = "TokenError" THEN lastError
          ELSE [TokenError("REFRESH_FAILED") EXCEPT !.origClass = lastError.class,
                                                    !.origCode = lastError.code]

\* safeTokenRefresh has not been called
NoExec ==
  [pc |-> "idle", maxRetries |-> 0, attempt |-> 0, calls |-> 0,
   waits |-> << >>, errors |-> << >>, resolved |-> << >>,
   result |-> NoResult, thrown |-> NoErr]

(***************************************************************************)
(* constants/routes and proxy.ts: paths and URLs are sequences of atoms    *)
(* whose concatenation is the string; no atom is a prefix of another, so   *)
(* String.startsWith is the prefix relation on these sequences.            *)
(***************************************************************************)
HOME == <<"/">>
LOGIN == <<"/", "login">>
FORGOT_PASSWORD == <<"/", "forgot-password">>
DASHBOARD_ROOT == <<"/", "dashboard">>

PUBLIC_ROUTES == {HOME, LOGIN, FORGOT_PASSWORD}

startsWith(s, prefix) ==
  Len(s) >= Len(prefix) /\ SubSeq(s, 1, Len(prefix)) = prefix

\* isPublicRoute matching any path that merely begins with a public route
isPublicRoute_anyPrefix(pathname) ==
  \E route \in PUBLIC_ROUTES : startsWith(pathname, route)

\* isPublicRoute with the login route missing from the public routes
isPublicRoute_loginProtected(pathname) ==
  \E route \in PUBLIC_ROUTES \ {LOGIN} :
    pathname = route \/ startsWith(pathname, route \o <<"/">>)

isPublicRoute(pathname) ==
  \E route \in PUBLIC_ROUTES :
    pathname = route \/ startsWith(pathname, route \o <<"/">>)

\* searchParams.get('returnUrl'): null when the parameter is missing
NoParam == << >>
\* the parameter given with an empty value
EmptyParam == <<"">>

\* the atom "?returnUrl=" that begins the query string of a URL
QueryMark == "?returnUrl="

\* where the query string of a URL begins: past its end when it has none
QueryAt(url) ==
  IF \E i \in 1..Len(url) : url[i] = QueryMark
  THEN CHOOSE i \in 1..Len(url) :
         url[i] = QueryMark /\ \A j \in 1..(i - 1) : url[j] # QueryMark
  ELSE Len(url) + 1

\* new URL(url, request.url) for a request to the login page: an absolute
\* or protocol-relative URL keeps its own origin, anything else resolves
\* against the application's origin (a URL that is only a query string
\* against the login page itself); returnUrl is the returnUrl parameter of
\* the resulting URL
NewURL(url) ==
  LET path == SubSeq(url, 1, QueryAt(url) - 1)
      query == SubSeq(url, QueryAt(url) + 1, Len(url))
  IN IF path # << >> /\ path[1] = "https:"
       THEN [origin |-> "external", pathname |-> HOME, returnUrl |-> NoParam]
     ELSE IF Len(path) >= 2 /\ path[1] = "/" /\ path[2] = "/"
       THEN [origin |-> "external", pathname |-> HOME, returnUrl |-> NoParam]
     ELSE IF path = << >>
       THEN [origin |-> "app", pathname |-> LOGIN, returnUrl |-> query]
     ELSE IF path[1] = "/"
       THEN [origin |-> "app", pathname |-> path, returnUrl |-> query]
     ELSE [origin |-> "app", pathname |-> <<"/">> \o path, returnUrl |-> query]

\* NextResponse.next()
Allow == [kind |-> "next", origin |-> "app", pathname |-> << >>, returnUrl |-> NoParam]

\* NextResponse.redirect(url), ret being the returnUrl parameter set on url
Redirect(url, ret) ==
  [kind |-> "redirect", origin |-> url.origin, pathname |-> url.pathname,
   returnUrl |-> IF ret # NoParam THEN ret ELSE url.returnUrl]

\* the proxy that ignores the returnUrl parameter on the login page
proxy_defaultOnly(pathname, returnUrlParam, isAuthenticated) ==
  IF isPublicRoute(pathname)
  THEN IF pathname = LOGIN /\ isAuthenticated
       THEN Redirect(NewURL(DASHBOARD_ROOT), NoParam)
       ELSE Allow
  ELSE IF ~isAuthenticated
       THEN Redirect(NewURL(LOGIN), pathname)
       ELSE Allow

\* the function wrapped by auth(...) in proxy.ts
proxy(pathname, returnUrlParam, isAuthenticated) ==
  IF isPublicRoute(pathname)
  THEN IF pathname = LOGIN /\ isAuthenticated
       THEN LET returnUrl == IF returnUrlParam \in {NoParam, EmptyParam}
                             THEN DASHBOARD_ROOT ELSE returnUrlParam
            IN Redirect(NewURL(returnUrl), NoParam)
       ELSE Allow
  ELSE IF ~isAuthenticated
       THEN Redirect(NewURL(LOGIN), pathname)
       ELSE Allow

(***************************************************************************)
(* auth.config: the credentials provider and the jwt / session callbacks.  *)
(* An optional object (null or a value) is a sequence of at most one       *)
(* element.                                                                *)
(***************************************************************************)
NoError == "none"
RefreshAccessTokenError == "RefreshAccessTokenError"

\* authorize that does not ask for the refresh token
authorize_accessOnly(credentials) ==
  IF Falsy(credentials.access) \/ credentials.username = ""
  THEN << >>
  ELSE <<[id |-> credentials.username,
          username |-> credentials.username,
          name |-> credentials.name,
          accessToken |-> credentials.access,
          refreshToken |-> credentials.refresh]>>

\* Credentials.authorize: null unless access, refresh and username are given
authorize(credentials) ==
  IF Falsy(credentials.access) \/ Falsy(credentials.refresh)
     \/ credentials.username = ""
  THEN << >>
  ELSE <<[id |-> credentials.username,
          username |-> credentials.username,
          name |-> credentials.name,
          accessToken |-> credentials.access,
          refreshToken |-> credentials.refresh]>>

\* getTokenExpiry of auth.config
authGetTokenExpiry(token) ==
  LET decoded == jwtDecode(token)
  IN IF Truthy(decoded) THEN decoded.exp * 1000 ELSE Null

\* isTokenExpired of auth.config that leaves out the first instant of the
\* buffer
authIsTokenExpired_strict(token, bufferMs, t) ==
  LET expiry == authGetTokenExpiry(token)
  IN IF expiry = Null THEN TRUE ELSE t > expiry - bufferMs

\* isTokenExpired of auth.config
authIsTokenExpired(token, bufferMs, t) ==
  LET expiry == authGetTokenExpiry(token)
  IN IF expiry = Null THEN TRUE ELSE t >= expiry - bufferMs

\* refreshAccessToken: the try block (mock mode) extends the expiry and
\* clears the error; the catch block flags the token.  threw: whether the
\* try block raised.
refreshAccessToken(token, t, threw) ==
  IF ~threw
  THEN [token EXCEPT !.accessTokenExpires = t + 60 * 60 * 1000,
                     !.error = NoError]
  ELSE [token EXCEPT !.error = RefreshAccessTokenError]

\* jwt callback, initial sign in (if (user) ...)
jwtSignIn(user, t) ==
  LET tokenExpiry == IF Falsy(user.accessToken) THEN Null
                     ELSE authGetTokenExpiry(user.accessToken)
  IN [id |-> user.id,
      username |-> user.username,
      name |-> user.name,
      accessToken |-> user.accessToken,
      refreshToken |-> user.refreshToken,
      accessTokenExpires |-> IF tokenExpiry # Null THEN tokenExpiry
                             ELSE t + 60 * 60 * 1000,
      error |-> NoError]

\* jwt callback, if (trigger === 'update' && session): newName is
\* session.user?.name, "" when it is missing
jwtUpdate(token, trigger, newName) ==
  IF trigger = "update" /\ newName # ""
  THEN [token EXCEPT !.name = newName]
  ELSE token

\* the shouldRefresh decision with a buffer of ten minutes
jwtShouldRefresh_wideBuffer(token, t) ==
  Falsy(token.accessToken) \/ authIsTokenExpired(token.accessToken, 10 * 60 * 1000, t)

\* jwt callback, the shouldRefresh decision
jwtShouldRefresh(token, t) ==
  Falsy(token.accessToken) \/ authIsTokenExpired(token.accessToken, 5 * 60 * 1000, t)

\* jwt callback that keeps nothing of the token when the refresh failed
jwtAfterRefresh_dropStale(token, refreshedToken) ==
  IF refreshedToken.error # NoError
  THEN [token EXCEPT !.accessToken = EmptyString,
                     !.error = RefreshAccessTokenError]
  ELSE refreshedToken

\* jwt callback, after await refreshAccessToken(token)
jwtAfterRefresh(token, refreshedToken) ==
  IF refreshedToken.error # NoError
  THEN [token EXCEPT !.error = RefreshAccessTokenError]
  ELSE refreshedToken

\* session callback that hands out a session whatever the error flag
sessionCallback_ignoreError(token) ==
  <<[user |-> [id |-> token.id, username |-> token.username,
               name |-> token.name],
     accessToken |-> token.accessToken,
     refreshToken |-> token.refreshToken]>>

\* session callback: null when the token carries an error
sessionCallback(token) ==
  IF token.error # NoError THEN << >>
  ELSE <<[user |-> [id |-> token.id, username |-> token.username,
                    name |-> token.name],
          accessToken |-> token.accessToken,
          refreshToken |-> token.refreshToken]>>

\* getAuthToken of the API client: the access token of the session auth()
\* returns, null (no Authorization header) without one; a token that needs
\* a refresh is logged and returned all the same
getAuthToken(auth) ==
  IF auth = << >> THEN Absent
  ELSE IF Falsy(auth[1].accessToken) THEN Absent
  ELSE auth[1].accessToken

\* isAuthenticated that also looks at the shape of the access token
IsAuthenticated_tokenShape(auth) ==
  auth # << >> /\ Len(auth[1].accessToken) = 3

\* !!request.auth?.user
IsAuthenticated(auth) == auth # << >>

(***************************************************************************)
(* State.                                                                  *)
(***************************************************************************)
VARIABLES
  now,         \* Date.now()
  tk,          \* the token handed to the token utilities
  out,         \* what the token utilities returned for tk at now
  cookie,      \* the session cookie: no session, or the stored JWT
  pc,          \* per request: "idle", or "awaiting" refreshAccessToken
  jt,          \* per request: the token the jwt callback is working on
  pending,     \* per request: what the awaited refreshAccessToken returns
  refreshCalls,\* refreshAccessToken invocations whose result is awaited
  last,        \* the operation completed by the latest step, if any
  ex,          \* the run of safeTokenRefresh
  fetchReq,    \* the request made through fetchBase
  nav          \* the browser following the redirects of the proxy

vars == <<now, tk, out, cookie, pc, jt, pending, refreshCalls, last, ex, fetchReq, nav>>

tokVars == <<tk, out, ex, fetchReq, nav>>
sessVars == <<cookie, pc, jt, pending, refreshCalls, last>>

\* requests (middleware runs, session updates) that may overlap
NumCallers == 2
Callers == 1..NumCallers

\* longest request path, in atoms
MaxPathLen == 3

\* minutes the session's clock may advance
MaxTicks == 2

NoOut == [done |-> FALSE]

NoDecision == [kind |-> "none", origin |-> "app", pathname |-> << >>, returnUrl |-> NoParam]

\* no operation completed in the latest step
NoLast ==
  [kind |-> "none", by |-> 0, at |-> 0, before |-> << >>, after |-> << >>,
   refresh |-> "no", pathname |-> << >>, returnUrlParam |-> NoParam,
   auth |-> << >>, decision |-> NoDecision, result |-> "none",
   cause |-> "none", bearer |-> Absent]

\* fetchBase has not been called
NoRequest ==
  [pc |-> "idle", timeout |-> 0, ownSignal |-> FALSE, timerAt |-> 0,
   aborted |-> FALSE, error |-> "none"]

\* the browser has not navigated
NoNav ==
  [origin |-> "app", pathname |-> << >>, returnUrlParam |-> NoParam,
   start |-> NoParam, hops |-> 0, allowed |-> FALSE]

(***************************************************************************)
(* Inputs.                                                                 *)
(***************************************************************************)
PathAtoms == {"/", "login", "forgot-password", "dashboard", "x"}

\* request.nextUrl.pathname: begins with a slash
PathSet ==
  UNION {{q \in [1..n -> PathAtoms] : q[1] = "/"} : n \in 1..MaxPathLen}

\* request.nextUrl.searchParams.get('returnUrl')
ReturnUrlSet ==
  {NoParam, EmptyParam, DASHBOARD_ROOT, LOGIN, <<"x">>,
   <<"/", "/", "x">>, <<"https:", "/", "/", "x">>,
   <<"/", "login", QueryMark, "/", "login">>,
   <<QueryMark, "/", "login", QueryMark, "x">>}

\* the requests the proxy sees, as <<pathname, returnUrl parameter>>: any
\* path, and the login page with any returnUrl parameter
RequestSet ==
  {<<pathname, NoParam>> : pathname \in PathSet}
    \cup {<<LOGIN, returnUrlParam>> : returnUrlParam \in ReturnUrlSet}

\* access tokens the login endpoint may answer with: one that enters the
\* refresh buffer after a minute, one that expires later, one that does
\* not decode, and none
AccessTokenSet ==
  {Jwt(5 * 60 + 60), Jwt(60 * MaxExpMin), <<JunkSeg>>, EmptyString, Absent}

\* the credentials of earlier logins whose sessions make API requests:
\* access tokens that expire after one, two, six and MaxExpMin minutes
ApiCredentialSet ==
  [access : {Jwt(60), Jwt(2 * 60), Jwt(5 * 60 + 60), Jwt(60 * MaxExpMin)},
   refresh : {Jwt(60 * MaxExpMin)}, username : {"admin"}, name : {"A"}]

RefreshTokenSet == {EmptyString, Absent, Jwt(60 * MaxExpMin)}

\* what signIn('credentials', ...) is called with after a successful login call
CredentialSet ==
  [access : AccessTokenSet, refresh : RefreshTokenSet,
   username : {"", "admin"}, name : {"A"}]

\* HTTP statuses of a failed login call: rejected credentials, a timeout,
\* a server error
StatusSet == {"401", "408", "500"}

\* trigger and session.user.name of a jwt callback ("" when missing)
NoTrigger == {<<"none", "">>}
AnyTrigger == {<<"none", "">>, <<"update", "">>, <<"update", "B">>}

\* auth() called by getAuthToken
ApiTrigger == {<<"api", "">>}

\* the requests of the session specification
ReqSet == {<<LOGIN, NoParam>>, <<DASHBOARD_ROOT, NoParam>>}

(***************************************************************************)
(* The token utilities applied to one token at one instant.                *)
(***************************************************************************)
\* no request in progress
InitSess ==
  /\ pc = [c \in Callers |-> "idle"]
  /\ jt = [c \in Callers |-> << >>]
  /\ pending = [c \in Callers |-> << >>]
  /\ refreshCalls = 0
  /\ last = NoLast
  /\ ex = NoExec
  /\ fetchReq = NoRequest

InitTok ==
  /\ now \in NowSet
  /\ tk \in TokenSet
  /\ out = NoOut
  /\ cookie = << >>
  /\ nav = NoNav
  /\ InitSess

Evaluate ==
  /\ ~out.done
  /\ out' = [done |-> TRUE,
             decoded |-> decodeToken(tk),
             expiry |-> getTokenExpiry(tk),
             expired |-> isTokenExpired(tk, 0, now),
             info |-> getTokenInfo(tk, now),
             valid |-> validateTokenFormat(tk).isValid,
             shouldRefresh |-> shouldRefreshToken(tk, now),
             refreshValid |-> isRefreshTokenValid(tk, now),
             callbackRefresh |-> jwtShouldRefresh([accessToken |-> tk], now)]
  /\ UNCHANGED <<now, tk, ex, fetchReq, nav>>
  /\ UNCHANGED sessVars

NextTok == Evaluate

SpecTok == InitTok /\ [][NextTok]_vars

(***************************************************************************)
(* The session: login, logout, and the evaluation of the session on every  *)
(* request (jwt callback, session callback, then the proxy).  An           *)
(* evaluation that refreshes is suspended at await refreshAccessToken, so  *)
(* it takes two steps and other requests may run in between.  The request  *)
(* path is read only by the proxy, after the session is resolved, and is   *)
(* drawn there.                                                            *)
(***************************************************************************)
Init ==
  /\ now = 0
  /\ tk = Absent
  /\ out = NoOut
  /\ cookie = << >>
  /\ nav = NoNav
  /\ InitSess

\* the clock advances
Tick ==
  /\ now + 60000 <= MaxTicks * 60000
  /\ now' = now + 60000
  /\ last' = NoLast
  /\ UNCHANGED <<cookie, pc, jt, pending, refreshCalls>>
  /\ UNCHANGED tokVars

\* signIn('credentials', ...) with accepted credentials: authorize, then
\* the jwt callback with the user (its refresh included), gives the cookie
SignInCookie(credentials, t, threw) ==
  LET token == jwtSignIn(authorize(credentials)[1], t)
  IN << IF jwtShouldRefresh(token, t)
        THEN jwtAfterRefresh(token, refreshAccessToken(token, t, threw))
        ELSE token >>

\* the record of a login that failed: the error code returned and what
\* made it fail
LoginFailure(code, cause) ==
  [NoLast EXCEPT !.kind = "login", !.result = code, !.cause = cause,
                 !.at = now, !.before = cookie, !.after = cookie]

\* loginAction: the login call, then signIn.  outcome: the login call
\* fails with an APIResponseError of the given HTTP status (the code
\* returned is error.status, a number, written here in decimal), something
\* else throws, signIn throws an AuthError other than CredentialsSignin,
\* signIn returns an error, or both calls complete ("ok"; signIn throws
\* CredentialsSignin when authorize returns null).
Login(outcome, status, credentials, threw) ==
  /\ \/ /\ outcome = "apiError"
        /\ last' = LoginFailure(status, "api" \o status)
        /\ UNCHANGED cookie
     \/ /\ outcome = "otherError"
        /\ last' = LoginFailure("UNKNOWN_ERROR", outcome)
        /\ UNCHANGED cookie
     \/ /\ outcome = "authError"
        /\ last' = LoginFailure("AUTH_ERROR", outcome)
        /\ UNCHANGED cookie
     \/ /\ outcome = "signInError"
        /\ last' = LoginFailure("AUTH_FAILED", outcome)
        /\ UNCHANGED cookie
     \/ /\ outcome = "ok"
        /\ authorize(credentials) = << >>
        /\ last' = LoginFailure("INVALID_CREDENTIALS", "authorize")
        /\ UNCHANGED cookie
     \/ /\ outcome = "ok"
        /\ authorize(credentials) # << >>
        /\ cookie' = SignInCookie(credentials, now, threw)
        /\ last' = [NoLast EXCEPT !.kind = "login", !.result = "success",
                                  !.at = now, !.before = cookie, !.after = cookie']
  /\ UNCHANGED <<now, pc, jt, pending, refreshCalls>>
  /\ UNCHANGED tokVars

\* logoutAction of lib/auth: the result returned
authLogoutAction(signOutThrows) ==
  [result |-> IF signOutThrows THEN "LOGOUT_FAILED" ELSE "success",
   decision |-> NoDecision]

\* the logout server action redirecting only after a successful signOut
logoutAction_redirectOnSuccess(signOutThrows) ==
  IF signOutThrows
  THEN [result |-> "error", decision |-> NoDecision]
  ELSE [result |-> "NEXT_REDIRECT", decision |-> Redirect(NewURL(LOGIN), NoParam)]

\* the logout server action: the catch block rethrows, and redirect() in
\* the finally block then throws NEXT_REDIRECT in place of that error
logoutAction(signOutThrows) ==
  [result |-> "NEXT_REDIRECT", decision |-> Redirect(NewURL(LOGIN), NoParam)]

\* a logout through either action: signOut clears the cookie unless it
\* throws
Logout(action, signOutThrows) ==
  /\ cookie' = IF signOutThrows THEN cookie ELSE << >>
  /\ LET done == IF action = "server" THEN logoutAction(signOutThrows)
                 ELSE authLogoutAction(signOutThrows)
     IN last' = [NoLast EXCEPT !.kind = "logout",
                               !.cause = action,
                               !.result = done.result,
                               !.decision = done.decision,
                               !.before = cookie, !.after = cookie']
  /\ UNCHANGED <<now, pc, jt, pending, refreshCalls>>
  /\ UNCHANGED tokVars

\* the record of a completed evaluation by request c
Completed(c, kind, at, before, after, refresh, pathname, returnUrlParam) ==
  LET auth == IF after = << >> THEN << >> ELSE sessionCallback(after[1])
  IN [kind |-> kind, by |-> c, at |-> at, before |-> before, after |-> after,
      refresh |-> refresh,
      pathname |-> IF kind = "guard" THEN pathname ELSE << >>,
      returnUrlParam |-> IF kind = "guard" THEN returnUrlParam ELSE NoParam,
      auth |-> auth,
      decision |-> IF kind = "guard"
                   THEN proxy(pathname, returnUrlParam, IsAuthenticated(auth))
                   ELSE NoDecision,
      result |-> "none",
      cause |-> "none",
      bearer |-> IF kind = "api" THEN getAuthToken(auth) ELSE Absent]

\* the kind of evaluation: a session update, auth() called by the API
\* client to build the headers of a request, or a request through the proxy
KindOf(trigger) ==
  IF trigger[1] \in {"update", "api"} THEN trigger[1] ELSE "guard"

\* a request without a session cookie reaches the proxy
NavigateNoSession(c, pathname, returnUrlParam) ==
  /\ pc[c] = "idle"
  /\ cookie = << >>
  /\ last' = Completed(c, "guard", now, << >>, << >>, "no", pathname, returnUrlParam)
  /\ UNCHANGED <<now, cookie, pc, jt, pending, refreshCalls>>
  /\ UNCHANGED tokVars

\* a request whose jwt callback returns the token without refreshing
Access(c, trigger, pathname, returnUrlParam) ==
  /\ pc[c] = "idle"
  /\ cookie # << >>
  /\ LET token == jwtUpdate(cookie[1], trigger[1], trigger[2])
     IN /\ ~jwtShouldRefresh(token, now)
        /\ cookie' = <<token>>
        /\ last' = Completed(c, KindOf(trigger), now, cookie, <<token>>, "no",
                             pathname, returnUrlParam)
  /\ UNCHANGED <<now, pc, jt, pending, refreshCalls>>
  /\ UNCHANGED tokVars

\* a request whose jwt callback calls refreshAccessToken and awaits it
AccessBegin(c, trigger, threw) ==
  /\ pc[c] = "idle"
  /\ cookie # << >>
  /\ LET token == jwtUpdate(cookie[1], trigger[1], trigger[2])
     IN /\ jwtShouldRefresh(token, now)
        /\ jt' = [jt EXCEPT ![c] = <<[kind |-> KindOf(trigger), at |-> now,
                                      before |-> cookie, token |-> token]>>]
        /\ pending' = [pending EXCEPT ![c] = <<refreshAccessToken(token, now, threw)>>]
  /\ pc' = [pc EXCEPT ![c] = "awaiting"]
  /\ refreshCalls' = refreshCalls + 1
  /\ last' = NoLast
  /\ UNCHANGED <<now, cookie>>
  /\ UNCHANGED tokVars

\* the awaited refresh returns: the jwt callback finishes, the session
\* callback and the proxy run, the cookie is rewritten
AccessEnd(c, pathname, returnUrlParam) ==
  /\ pc[c] = "awaiting"
  /\ LET token == jwtAfterRefresh(jt[c][1].token, pending[c][1])
     IN /\ cookie' = <<token>>
        /\ last' = Completed(c, jt[c][1].kind, jt[c][1].at, jt[c][1].before, <<token>>,
                             IF pending[c][1].error # NoError THEN "failed" ELSE "ok",
                             pathname, returnUrlParam)
  /\ pc' = [pc EXCEPT ![c] = "idle"]
  /\ jt' = [jt EXCEPT ![c] = << >>]
  /\ pending' = [pending EXCEPT ![c] = << >>]
  /\ refreshCalls' = refreshCalls - 1
  /\ UNCHANGED now
  /\ UNCHANGED tokVars

\* one request at a time: login, logout, navigation, session updates
Next ==
  \/ Tick
  \/ \E status \in StatusSet :
       Login("apiError", status, CHOOSE credentials \in CredentialSet : TRUE, FALSE)
  \/ \E outcome \in {"otherError", "authError", "signInError"} :
       Login(outcome, "200", CHOOSE credentials \in CredentialSet : TRUE, FALSE)
  \/ \E credentials \in CredentialSet, threw \in BOOLEAN :
       Login("ok", "200", credentials, threw)
  \/ \E action \in {"lib", "server"}, signOutThrows \in BOOLEAN :
       Logout(action, signOutThrows)
  \/ \E req \in ReqSet : NavigateNoSession(1, req[1], req[2])
  \/ \E trigger \in AnyTrigger, req \in ReqSet : Access(1, trigger, req[1], req[2])
  \/ \E trigger \in AnyTrigger, threw \in BOOLEAN : AccessBegin(1, trigger, threw)
  \/ \E req \in ReqSet : AccessEnd(1, req[1], req[2])

Spec == Init /\ [][Next]_vars

(***************************************************************************)
(* The proxy on every path: a visitor without a session, or with the       *)
(* session an earlier login left, navigates.                               *)
(***************************************************************************)
\* the session cookies a login at time 0 leaves
SignInCookies ==
  {SignInCookie(credentials, 0, threw) :
     credentials \in {cr \in CredentialSet : authorize(cr) # << >>},
     threw \in BOOLEAN}

InitGuard ==
  /\ now = 0
  /\ tk = Absent
  /\ out = NoOut
  /\ cookie \in {<< >>} \cup SignInCookies
  /\ nav = NoNav
  /\ InitSess

NextGuard ==
  \/ Tick
  \/ \E req \in RequestSet : NavigateNoSession(1, req[1], req[2])
  \/ \E trigger \in NoTrigger, req \in RequestSet :
       Access(1, trigger, req[1], req[2])
  \/ \E trigger \in NoTrigger, threw \in BOOLEAN : AccessBegin(1, trigger, threw)
  \/ \E req \in RequestSet : AccessEnd(1, req[1], req[2])

SpecGuard == InitGuard /\ [][NextGuard]_vars

(***************************************************************************)
(* Overlapping requests on the session an earlier login left.              *)
(***************************************************************************)
InitConc ==
  /\ now \in {k * 60000 : k \in 0..MaxTicks}
  /\ tk = Absent
  /\ out = NoOut
  /\ cookie \in SignInCookies
  /\ nav = NoNav
  /\ InitSess

NextConc ==
  \/ \E c \in Callers, trigger \in NoTrigger :
       Access(c, trigger, DASHBOARD_ROOT, NoParam)
  \/ \E c \in Callers, trigger \in NoTrigger, threw \in BOOLEAN :
       AccessBegin(c, trigger, threw)
  \/ \E c \in Callers : AccessEnd(c, DASHBOARD_ROOT, NoParam)

SpecConc == InitConc /\ [][NextConc]_vars

(***************************************************************************)
(* Authenticated API requests and navigation on the session an earlier     *)
(* login left: buildHeaders calls getAuthToken, which calls auth().        *)
(***************************************************************************)
InitApi ==
  /\ now = 0
  /\ tk = Absent
  /\ out = NoOut
  /\ cookie \in {SignInCookie(credentials, 0, threw) :
                   credentials \in ApiCredentialSet, threw \in BOOLEAN}
  /\ nav = NoNav
  /\ InitSess

NextApi ==
  \/ Tick
  \/ \E trigger \in ApiTrigger \cup NoTrigger, request \in ReqSet :
       Access(1, trigger, request[1], request[2])
  \/ \E trigger \in ApiTrigger \cup NoTrigger, threw \in BOOLEAN :
       AccessBegin(1, trigger, threw)
  \/ \E request \in ReqSet : AccessEnd(1, request[1], request[2])

SpecApi == InitApi /\ [][NextApi]_vars

(***************************************************************************)
(* A browser follows the redirects of the proxy while the session stays as *)
(* it is.                                                                  *)
(***************************************************************************)
\* the request is passed through the proxy: it is allowed, or the browser
\* goes to the URL it is redirected to
Hop ==
  /\ ~nav.allowed
  /\ nav.origin = "app"
  /\ LET auth == IF cookie = << >> THEN << >> ELSE sessionCallback(cookie[1])
         decision == proxy(nav.pathname, nav.returnUrlParam, IsAuthenticated(auth))
     IN nav' = IF decision.kind = "next"
               THEN [nav EXCEPT !.allowed = TRUE]
               ELSE [nav EXCEPT !.origin = decision.origin,
                                !.pathname = decision.pathname,
                                !.returnUrlParam = decision.returnUrl,
                                !.hops = nav.hops + 1]
  /\ UNCHANGED <<now, tk, out, ex, fetchReq>>
  /\ UNCHANGED sessVars

InitNav ==
  /\ now = 0
  /\ tk = Absent
  /\ out = NoOut
  /\ cookie \in {<< >>} \cup SignInCookies
  /\ nav \in {[NoNav EXCEPT !.pathname = request[1],
                            !.returnUrlParam = request[2],
                            !.start = request[2]] : request \in RequestSet}
  /\ InitSess

NextNav == Hop

SpecNav == InitNav /\ [][NextNav]_vars /\ WF_vars(Hop)

(***************************************************************************)
(* One run of safeTokenRefresh.  Each call of refreshFn resolves with a    *)
(* result or rejects with an error; the run is suspended while it awaits   *)
(* the backoff timer.                                                      *)
(***************************************************************************)
\* largest number of retries a caller asks for
RetryLimit == 3

\* maxRetries as the caller passes it
RetrySet == -1..RetryLimit

\* access values of a refresh response: a valid token, strings that fail
\* the validation, the empty string and undefined
ExecAccessSet ==
  {Jwt(60 * MaxExpMin), <<NoExpSeg, ExpSeg(60 * MaxExpMin)>>, <<JunkSeg, JunkSeg, JunkSeg>>,
   <<NoExpSeg, NoExpSeg, JunkSeg>>, EmptyString, Absent}

ExecResultSet ==
  {NullResult, ObjectResult} \cup {TokenResult(access) : access \in ExecAccessSet}

ExecErrorSet ==
  {TokenError("INVALID_CREDENTIALS"), TokenError("NETWORK_ERROR"),
   PlainError("TIMEOUT"), PlainError("NETWORK")}

\* what one call of refreshFn does
ExecOutcomeSet ==
  {[kind |-> "return", result |-> r, error |-> NoErr] : r \in ExecResultSet}
    \cup {[kind |-> "throw", result |-> NoResult, error |-> e] : e \in ExecErrorSet}

\* the loop is left without a result: the error after the loop is thrown
ExecFail(run) ==
  [run EXCEPT !.pc = "thrown", !.thrown = terminalError(run.errors)]

\* attempt++ and the loop's condition
ExecAdvance(run) ==
  LET next == [run EXCEPT !.attempt = run.attempt + 1]
  IN IF loopContinues(next.attempt, next.maxRetries)
     THEN [next EXCEPT !.pc = "calling"]
     ELSE ExecFail(next)

\* an accepted result that does not end the loop
returnResult_keepGoing(run, result) ==
  ExecAdvance([run EXCEPT !.result = result])

\* return result
returnResult(run, result) ==
  [run EXCEPT !.pc = "returned", !.result = result]

\* safeTokenRefresh is called: attempt = 0 and the loop's condition
ExecStart(maxRetries) ==
  /\ ex.pc = "idle"
  /\ ex' = LET run == [NoExec EXCEPT !.maxRetries = maxRetries]
           IN IF loopContinues(0, maxRetries)
              THEN [run EXCEPT !.pc = "calling"]
              ELSE ExecFail(run)
  /\ UNCHANGED <<now, tk, out, fetchReq, nav>>
  /\ UNCHANGED sessVars

\* one attempt: await refreshFn(), the validation of the result, and the
\* catch block up to the backoff timer
ExecAttempt(outcome) ==
  /\ ex.pc = "calling"
  /\ LET called == [ex EXCEPT !.calls = ex.calls + 1,
                              !.resolved = IF outcome.kind = "return"
                                           THEN Append(ex.resolved, outcome.result)
                                           ELSE ex.resolved]
         error == IF outcome.kind = "throw" THEN outcome.error
                  ELSE IF rejectsResult(outcome.result)
                    THEN TokenError("INVALID_REFRESH_RESULT")
                  ELSE NoErr
         caught == [called EXCEPT !.errors = Append(ex.errors, error)]
     IN ex' = IF error = NoErr
              THEN returnResult(called, outcome.result)
              ELSE IF isAuthenticationError(error) THEN ExecFail(caught)
              ELSE IF ex.attempt < ex.maxRetries
                THEN [caught EXCEPT !.pc = "waiting",
                                    !.waits = Append(ex.waits, backoffDelay(ex.attempt))]
              ELSE ExecAdvance(caught)
  /\ UNCHANGED <<now, tk, out, fetchReq, nav>>
  /\ UNCHANGED sessVars

\* the backoff timer fires: the next iteration of the loop
ExecBackoff ==
  /\ ex.pc = "waiting"
  /\ now' = now + ex.waits[Len(ex.waits)]
  /\ ex' = ExecAdvance(ex)
  /\ UNCHANGED <<tk, out, fetchReq, nav>>
  /\ UNCHANGED sessVars

InitExec ==
  /\ now = 0
  /\ tk = Absent
  /\ out = NoOut
  /\ cookie = << >>
  /\ nav = NoNav
  /\ InitSess

NextExec ==
  \/ \E maxRetries \in RetrySet : ExecStart(maxRetries)
  \/ \E outcome \in ExecOutcomeSet : ExecAttempt(outcome)
  \/ ExecBackoff

SpecExec == InitExec /\ [][NextExec]_vars

(***************************************************************************)
(* The API client: one request through fetchBase.  The timer set with      *)
(* setTimeout aborts the request's own AbortController; fetch listens to   *)
(* options.signal when the caller gives one and to the controller's signal *)
(* otherwise.                                                              *)
(***************************************************************************)
\* configs: API_TIMEOUT, with NEXT_PUBLIC_API_TIMEOUT unset
API_TIMEOUT == 30000

\* options.timeout (0: not given) and whether options.signal is given
OptionSet == [timeout : {0, 10000, 20000}, signal : BOOLEAN]

\* how long after the latest step a response arrives
DelaySet == {0, 5000, 9999}

\* what fetch ends with: an HTTP status, or a network failure
ResponseSet == {"200", "401", "500", "network"}

\* fetchBase up to await fetch(...)
FetchStart(options) ==
  /\ fetchReq.pc = "idle"
  /\ LET timeout == IF options.timeout # 0 THEN options.timeout ELSE API_TIMEOUT
     IN fetchReq' = [NoRequest EXCEPT !.pc = "pending",
                                 !.timeout = timeout,
                                 !.ownSignal = options.signal,
                                 !.timerAt = now + timeout]
  /\ UNCHANGED <<now, tk, out, ex, nav>>
  /\ UNCHANGED sessVars

\* fetch settles before the timer fires, or after it when the request was
\* not aborted: handleResponse, then finally clearTimeout
FetchRespond(response, delay) ==
  /\ fetchReq.pc = "pending"
  /\ fetchReq.aborted \/ now + delay < fetchReq.timerAt
  /\ now' = now + delay
  /\ fetchReq' = IF response = "200" THEN [fetchReq EXCEPT !.pc = "resolved"]
            ELSE [fetchReq EXCEPT !.pc = "rejected", !.error = response]
  /\ UNCHANGED <<tk, out, ex, nav>>
  /\ UNCHANGED sessVars

\* the timer fires: controller.abort(); a fetch listening to the
\* controller's signal rejects with an AbortError, which the catch block
\* turns into APIResponseError TIMEOUT
FetchTimeout ==
  /\ fetchReq.pc = "pending"
  /\ ~fetchReq.aborted
  /\ now' = fetchReq.timerAt
  /\ fetchReq' = IF fetchReq.ownSignal
            THEN [fetchReq EXCEPT !.aborted = TRUE]
            ELSE [fetchReq EXCEPT !.aborted = TRUE, !.pc = "rejected", !.error = "TIMEOUT"]
  /\ UNCHANGED <<tk, out, ex, nav>>
  /\ UNCHANGED sessVars

\* the caller aborts its own signal: fetch rejects with an AbortError
FetchCallerAbort ==
  /\ fetchReq.pc = "pending"
  /\ fetchReq.ownSignal
  /\ fetchReq' = [fetchReq EXCEPT !.pc = "rejected", !.error = "TIMEOUT"]
  /\ UNCHANGED <<now, tk, out, ex, nav>>
  /\ UNCHANGED sessVars

InitFetch ==
  /\ now = 0
  /\ tk = Absent
  /\ out = NoOut
  /\ cookie = << >>
  /\ nav = NoNav
  /\ InitSess

NextFetch ==
  \/ \E options \in OptionSet : FetchStart(options)
  \/ \E response \in ResponseSet, delay \in DelaySet : FetchRespond(response, delay)
  \/ FetchTimeout
  \/ FetchCallerAbort

SpecFetch == InitFetch /\ [][NextFetch]_vars

(***************************************************************************)
(* Properties of the token utilities (checked under SpecTok).              *)
(***************************************************************************)
\* the token's payload segment deserializes and carries an exp claim
HasExpClaim(t) == Len(t) >= 2 /\ t[2].kind = "json" /\ t[2].hasExp

\* that claim as an instant, in milliseconds
ExpClaimMs(t) == t[2].exp * 1000

\* C8: for a token with a decodable expiry E, shouldRefresh is true iff
\* now >= E - 5 minutes; an absent token always yields true.
ThmShouldRefreshIff ==
  out.done =>
    /\ (tk = Absent => out.shouldRefresh)
    /\ (HasExpClaim(tk) =>
          (out.shouldRefresh <=> now >= ExpClaimMs(tk) - 5 * 60 * 1000))

\* a token exactly 5 minutes before its expiry was found to need a refresh
WitShouldRefreshBoundary ==
  /\ out.done
  /\ HasExpClaim(tk)
  /\ ExpClaimMs(tk) > 5 * 60 * 1000
  /\ now = ExpClaimMs(tk) - 5 * 60 * 1000
  /\ out.shouldRefresh

\* a string that is empty, has a segment count other than three, or whose
\* payload segment does not deserialize
Malformed(t) ==
  /\ t # Absent
  /\ (t = EmptyString \/ Len(t) # 3 \/ t[2].kind # "json")

\* C9: decoding a malformed string fails and shouldRefresh of it is true.
ThmMalformedFailsClosed ==
  out.done /\ Malformed(tk) => ~out.decoded.ok /\ out.shouldRefresh

\* C10: expired iff the expiry is undecodable or now >= expiry;
\* expiring-soon iff not expired and now >= expiry - 5 minutes; the two
\* never hold together (valid is neither); the time until expiry is never
\* negative and is 0 for an expired token.
ThmExpiryClassification ==
  out.done =>
    LET decodable == HasExpClaim(tk)
        expired == ~decodable \/ now >= ExpClaimMs(tk)
        soon == ~expired /\ now >= ExpClaimMs(tk) - 5 * 60 * 1000
    IN /\ out.info.isExpired <=> expired
       /\ out.info.willExpireSoon <=> soon
       /\ ~(out.info.isExpired /\ out.info.willExpireSoon)
       /\ out.info.timeUntilExpiry >= 0
       /\ out.info.isExpired => out.info.timeUntilExpiry = 0
       /\ decodable /\ ~expired =>
            out.info.timeUntilExpiry = ExpClaimMs(tk) - now

\* a token classified at the very instant of its expiry
WitClassifiedAtExpiry ==
  /\ out.done
  /\ HasExpClaim(tk)
  /\ ExpClaimMs(tk) > 0
  /\ now = ExpClaimMs(tk)
  /\ out.info.isExpired
  /\ ~out.info.willExpireSoon
  /\ out.info.timeUntilExpiry = 0

(***************************************************************************)
(* Properties of the route guard (checked under SpecGuard).                *)
(***************************************************************************)
\* the state of the session a cookie holds
SessState(ck) ==
  IF ck = << >> THEN "Unauthenticated"
  ELSE IF ck[1].error # NoError THEN "AuthenticatedError"
  ELSE "Authenticated"

\* the redirect to the login page that carries the requested path
RedirectToLogin(pathname) ==
  [kind |-> "redirect", origin |-> "app", pathname |-> <<"/", "login">>,
   returnUrl |-> pathname]

\* C1: on a path that is not public the guard allows only an Authenticated
\* session (one for which the session callback yields a session with a
\* user); an Unauthenticated or Authenticated-Error session is redirected
\* to the login path with returnUrl equal to the requested path.
ThmProtectedPaths ==
  last.kind = "guard" /\ ~isPublicRoute(last.pathname) =>
    /\ (SessState(last.after) = "Authenticated") <=> (last.auth # << >>)
    /\ IF SessState(last.after) = "Authenticated"
       THEN last.decision.kind = "next"
       ELSE last.decision = RedirectToLogin(last.pathname)

\* a session flagged by a failed refresh asked for the dashboard and was
\* sent to login
WitProtectedPathError ==
  /\ last.kind = "guard"
  /\ last.pathname = <<"/", "dashboard">>
  /\ last.refresh = "failed"
  /\ SessState(last.after) = "AuthenticatedError"
  /\ last.decision = RedirectToLogin(<<"/", "dashboard">>)

\* C2: on the login path an Authenticated session is redirected, to the
\* return URL when the request gives one and to the dashboard otherwise;
\* an Unauthenticated or Authenticated-Error session is allowed.
ThmLoginPath ==
  last.kind = "guard" /\ last.pathname = <<"/", "login">> =>
    IF SessState(last.after) = "Authenticated"
    THEN /\ last.decision.kind = "redirect"
         /\ IF last.returnUrlParam \in {NoParam, EmptyParam}
            THEN /\ last.decision.origin = "app"
                 /\ last.decision.pathname = <<"/", "dashboard">>
            ELSE /\ last.decision.origin = NewURL(last.returnUrlParam).origin
                 /\ last.decision.pathname = NewURL(last.returnUrlParam).pathname
    ELSE last.decision.kind = "next"

\* an authenticated visitor of /login?returnUrl=x was sent to /x
WitLoginPathReturnUrl ==
  /\ last.kind = "guard"
  /\ last.pathname = <<"/", "login">>
  /\ last.returnUrlParam = <<"x">>
  /\ SessState(last.after) = "Authenticated"
  /\ last.decision.kind = "redirect"
  /\ last.decision.pathname = <<"/", "x">>

\* the segments of a path, as split('/') returns them
RECURSIVE SplitPath(_)
SplitPath(path) ==
  IF path = << >> THEN << << >> >>
  ELSE LET rest == SplitPath(Tail(path))
       IN IF Head(path) = "/" THEN << << >> >> \o rest
          ELSE << <<Head(path)>> \o rest[1] >> \o Tail(rest)

\* the path equals a public route or lies beneath it: the route's segments
\* are the first segments of the path
ClassifiedPublic(pathname) ==
  \E route \in {<<"/">>, <<"/", "login">>, <<"/", "forgot-password">>} :
    LET r == SplitPath(route)
        q == SplitPath(pathname)
    IN Len(q) >= Len(r) /\ SubSeq(q, 1, Len(r)) = r

\* C3: a public path other than the login path is allowed in every session
\* state, and a path is public exactly when it equals a public route or
\* lies beneath one at a segment boundary (so that, without a valid
\* session, exactly those paths are allowed).
ThmPublicPaths ==
  last.kind = "guard" =>
    /\ isPublicRoute(last.pathname) <=> ClassifiedPublic(last.pathname)
    /\ (ClassifiedPublic(last.pathname) /\ last.pathname # <<"/", "login">>
          => last.decision.kind = "next")
    /\ (SessState(last.after) # "Authenticated"
          => (last.decision.kind = "next" <=> ClassifiedPublic(last.pathname)))

\* a session flagged by a failed refresh was allowed on a path beneath
\* /forgot-password
WitPublicPathBeneath ==
  /\ last.kind = "guard"
  /\ last.pathname = <<"/", "forgot-password", "/">>
  /\ SessState(last.after) = "AuthenticatedError"
  /\ last.decision.kind = "next"

(***************************************************************************)
(* Properties of request-access, the jwt callback (checked under Spec and  *)
(* SpecConc).                                                              *)
(***************************************************************************)
\* C4: when the refresh of a request-access fails, the session becomes
\* Authenticated-Error: the error is the refresh-error tag and every other
\* field is the one held before the attempt.
ThmRefreshFailure ==
  last.kind = "guard" /\ last.refresh = "failed" =>
    /\ last.after[1].error = "RefreshAccessTokenError"
    /\ last.after[1].accessToken = last.before[1].accessToken
    /\ last.after[1].refreshToken = last.before[1].refreshToken
    /\ last.after[1].accessTokenExpires = last.before[1].accessTokenExpires
    /\ last.after[1].id = last.before[1].id
    /\ last.after[1].username = last.before[1].username
    /\ last.after[1].name = last.before[1].name

\* an Authenticated session whose refresh failed
WitRefreshFailure ==
  /\ last.kind = "guard"
  /\ last.refresh = "failed"
  /\ SessState(last.before) = "Authenticated"
  /\ SessState(last.after) = "AuthenticatedError"
  /\ cookie = last.after

\* C5: when the refresh of a request-access succeeds, the session is
\* Authenticated with a new token pair in place of the old one and the
\* error flag is cleared.
ThmRefreshSuccessSwapsPair ==
  last.kind = "guard" /\ last.refresh = "ok" =>
    /\ last.after[1].error = NoError
    /\ last.after[1].accessToken # last.before[1].accessToken

\* the access token is present and not within five minutes of its expiry
FreshAt(token, t) ==
  /\ token # EmptyString
  /\ HasExpClaim(token)
  /\ t < ExpClaimMs(token) - 5 * 60 * 1000

\* C6: a request-access on a session whose access token is present and not
\* within the 5-minute buffer invokes no refresh and returns the session
\* record unchanged.
ThmNoRefreshFrame ==
  /\ last.kind = "guard" /\ last.before # << >>
       /\ FreshAt(last.before[1].accessToken, last.at) =>
         last.refresh = "no" /\ last.after = last.before /\ cookie = last.before
  /\ \A c \in Callers :
       pc[c] = "awaiting" => ~FreshAt(jt[c][1].before[1].accessToken, jt[c][1].at)

\* such a request-access, some time after the login
WitNoRefreshFrame ==
  /\ last.kind = "guard"
  /\ last.before # << >>
  /\ last.at > 0
  /\ FreshAt(last.before[1].accessToken, last.at)
  /\ last.refresh = "no"
  /\ last.after = last.before

\* C7: while several request-access evaluations on the same session await
\* a refresh, exactly one refresh invocation has been made and all of them
\* are to observe the same result.
ThmSingleFlight ==
  LET waiting == {c \in Callers : pc[c] = "awaiting"}
  IN waiting # {} =>
       /\ refreshCalls = 1
       /\ \A c, d \in waiting : pending[c] = pending[d]

(***************************************************************************)
(* Properties of the refresh-token check (checked under SpecTok).          *)
(***************************************************************************)
\* C11: a refresh token is usable iff it is present, its expiry is
\* decodable and not yet reached, and at least 2 minutes of validity
\* remain.
ThmRefreshTokenUsable ==
  out.done =>
    (out.refreshValid <=>
       /\ tk # Absent
       /\ HasExpClaim(tk)
       /\ now < ExpClaimMs(tk)
       /\ ExpClaimMs(tk) - now >= 2 * 60 * 1000)

\* a refresh token with exactly 2 minutes left was found usable
WitRefreshTokenUsableBoundary ==
  /\ out.done
  /\ HasExpClaim(tk)
  /\ ExpClaimMs(tk) - now = 2 * 60 * 1000
  /\ out.refreshValid

(***************************************************************************)
(* Properties of safeTokenRefresh (checked under SpecExec).                *)
(***************************************************************************)
\* a timeout or network failure: an error that is not credential-class
Transient(e) ==
  e \in {PlainError("TIMEOUT"), PlainError("NETWORK"), TokenError("NETWORK_ERROR")}

\* a rejected refresh token or a malformed response
CredentialClass(e) ==
  e \in {TokenError("INVALID_CREDENTIALS"), TokenError("INVALID_REFRESH_RESULT")}

\* the run has ended with an error
Failed == ex.pc = "thrown"

\* C12: the refresh function is never called more than maxRetries + 1
\* times, and when every call fails with a transient error the run ends,
\* after exactly maxRetries + 1 calls, with a TokenError.
ThmRetryBound ==
  /\ ex.calls <= ex.maxRetries + 1
  /\ ex.pc = "calling" => ex.attempt <= ex.maxRetries
  /\ ex.pc = "waiting" => ex.attempt < ex.maxRetries
  /\ (Failed /\ \A i \in 1..Len(ex.errors) : Transient(ex.errors[i])) =>
       /\ ex.calls = ex.maxRetries + 1
       /\ Len(ex.errors) = ex.calls
       /\ ex.thrown.class = "TokenError"

\* with maxRetries = 2, three timeouts ended the run with REFRESH_FAILED
WitRetryBound ==
  /\ Failed
  /\ ex.maxRetries = 2
  /\ ex.calls = 3
  /\ \A i \in 1..3 : ex.errors[i] = PlainError("TIMEOUT")
  /\ ex.thrown.code = "REFRESH_FAILED"

\* C13: when the first attempt fails with a credential-class error the
\* refresh function has been called exactly once and the run has failed
\* with that error, without any backoff wait.
ThmNoRetryOnCredentialError ==
  Len(ex.errors) >= 1 /\ CredentialClass(ex.errors[1]) =>
    /\ Failed
    /\ ex.calls = 1
    /\ ex.waits = << >>
    /\ now = 0
    /\ ex.thrown = ex.errors[1]

\* a first response with a malformed access token ended a run that had two
\* retries left
WitNoRetryOnCredentialError ==
  /\ Failed
  /\ ex.maxRetries = 2
  /\ ex.calls = 1
  /\ ex.errors = <<TokenError("INVALID_REFRESH_RESULT")>>
  /\ ex.waits = << >>

\* C14: a result carrying an access key is returned only if that access
\* token has three segments and a decodable payload with an expiry claim;
\* a result that fails this ends the run with a credential-class error.
ThmRefreshResultValidated ==
  /\ ex.pc = "returned" /\ ex.result.hasAccess =>
       Len(ex.result.access) = 3 /\ HasExpClaim(ex.result.access)
  /\ (ex.errors # << >>
        /\ ex.errors[Len(ex.errors)] = TokenError("INVALID_REFRESH_RESULT")) =>
       Failed /\ CredentialClass(ex.thrown)

\* C15: the k-th wait of a run lasts 1000 * 2^(k-1) ms, a wait follows
\* every failed attempt but the last permitted one, and none follows a
\* credential-class error.
ThmBackoffSchedule ==
  /\ \A k \in 1..Len(ex.waits) : ex.waits[k] = 1000 * 2^(k - 1)
  /\ Len(ex.waits) <= Max(0, ex.maxRetries)
  /\ Len(ex.waits) = IF ex.pc \in {"calling", "waiting"} THEN ex.calls
                     ELSE Max(0, ex.calls - 1)
  /\ ex.pc = "waiting" => ~CredentialClass(ex.errors[Len(ex.errors)])
  /\ Failed /\ ex.calls = ex.maxRetries + 1 => Len(ex.waits) = Max(0, ex.maxRetries)

\* with maxRetries = 3 the run waited 1 s, 2 s and 4 s and failed at once
\* after its fourth attempt
WitBackoffSchedule ==
  /\ Failed
  /\ ex.maxRetries = 3
  /\ ex.calls = 4
  /\ ex.waits = <<1000, 2000, 4000>>
  /\ now = 7000

\* C16: a run that fails after its attempts throws a TokenError that is
\* the error of the last failed attempt or wraps it as its cause.
ThmTerminalCarriesLastCause ==
  Failed /\ ex.errors # << >> =>
    LET lastError == ex.errors[Len(ex.errors)]
    IN /\ ex.thrown.class = "TokenError"
       /\ \/ ex.thrown = lastError
          \/ /\ ex.thrown.code = "REFRESH_FAILED"
             /\ ex.thrown.origClass = lastError.class
             /\ ex.thrown.origCode = lastError.code

\* three attempts failed, first with a timeout and last with a network
\* error, and the error thrown wraps the network error
WitTerminalCarriesLastCause ==
  /\ Failed
  /\ ex.calls = 3
  /\ ex.calls = ex.maxRetries + 1
  /\ ex.errors[1] = PlainError("TIMEOUT")
  /\ ex.errors[3] = PlainError("NETWORK")
  /\ ex.thrown.code = "REFRESH_FAILED"
  /\ ex.thrown.origCode = "NETWORK"

(***************************************************************************)
(* Properties of the session record, login and logout (checked under       *)
(* Spec).                                                                  *)
(***************************************************************************)
\* C17: the stored accessTokenExpires equals the expiry claim of the
\* stored access token whenever that claim is decodable, and right after a
\* login with an undecodable claim it is the time of the login plus 1 hour.
ThmExpiresMatchesClaim ==
  cookie # << >> =>
    IF HasExpClaim(cookie[1].accessToken)
    THEN cookie[1].accessTokenExpires = ExpClaimMs(cookie[1].accessToken)
    ELSE last.kind = "login" /\ last.result = "success" =>
           cookie[1].accessTokenExpires = last.at + 60 * 60 * 1000

\* C18: a failed login returns one of the codes INVALID_CREDENTIALS,
\* AUTH_ERROR, UNKNOWN_ERROR, with INVALID_CREDENTIALS when the server
\* rejected the username and password, and leaves the session as it was.
ThmLoginFailureCodes ==
  last.kind = "login" /\ last.result # "success" =>
    /\ last.result \in {"INVALID_CREDENTIALS", "AUTH_ERROR", "UNKNOWN_ERROR"}
    /\ last.cause = "api401" => last.result = "INVALID_CREDENTIALS"
    /\ cookie = last.before

\* C19: after a logout the session is Unauthenticated, whether or not
\* signOut threw.
ThmLogoutUnconditional ==
  last.kind = "logout" => cookie = << >>

\* C20: an access check on an Authenticated-Error session yields no
\* session, and the session leaves Authenticated-Error only by a logout
\* (or a new login).
ThmErrorSticky ==
  /\ [](last.kind \in {"guard", "update"}
          /\ SessState(last.after) = "AuthenticatedError" => last.auth = << >>)
  /\ [][SessState(cookie) = "AuthenticatedError" =>
          \/ SessState(cookie') = "AuthenticatedError"
          \/ last'.kind = "logout" /\ cookie' = << >>
          \/ last'.kind = "login"]_vars

(***************************************************************************)
(* Properties of the API client (checked under SpecFetch).                 *)
(***************************************************************************)
\* C21 (the timeout of a request): the timer is set to options.timeout, 30
\* seconds by default, and a request still without a response when the
\* timer has fired is aborted and has failed with TIMEOUT.
ThmRequestTimeout ==
  /\ fetchReq.pc # "idle" => fetchReq.timeout > 0
  /\ fetchReq.aborted => fetchReq.pc = "rejected" /\ fetchReq.error = "TIMEOUT"

ThmLogoutRedirects ==
  last.kind = "logout" /\ last.cause = "server" =>
    /\ last.decision.kind = "redirect"
    /\ last.decision.origin = "app"
    /\ last.decision.pathname = <<"/", "login">>

\* signOut threw, the session is still there, and the action redirected
WitLogoutRedirectsOnThrow ==
  /\ last.kind = "logout"
  /\ last.cause = "server"
  /\ last.before # << >>
  /\ cookie = last.before
  /\ last.decision.pathname = <<"/", "login">>

(***************************************************************************)
(* Further properties of the session (checked under Spec).                 *)
(***************************************************************************)
\* C24: right after an evaluation whose refresh succeeded, with no time
\* elapsed, a refresh is not warranted on the resulting session.
ThmRefreshQuiescence ==
  last.refresh = "ok" /\ now = last.at =>
    FreshAt(cookie[1].accessToken, now)

\* C25: a bearer token the API client attaches, when its expiry decodes,
\* is not expired at that moment.
ThmNoExpiredBearer ==
  last.kind = "api" /\ last.bearer # Absent /\ HasExpClaim(last.bearer) =>
    now < ExpClaimMs(last.bearer)

\* access token, refresh token and username are all present and non-empty
Complete(credentials) ==
  /\ credentials.access \notin {Absent, EmptyString}
  /\ credentials.refresh \notin {Absent, EmptyString}
  /\ credentials.username # ""

\* C29: the credentials provider returns a user exactly for a complete
\* credential set, and every session record, stored or being refreshed,
\* holds a non-empty access token and a non-empty refresh token.
ThmCompleteCredentials ==
  /\ \A credentials \in CredentialSet :
       authorize(credentials) # << >> <=> Complete(credentials)
  /\ cookie # << >> =>
       /\ cookie[1].accessToken \notin {Absent, EmptyString}
       /\ cookie[1].refreshToken \notin {Absent, EmptyString}
  /\ \A c \in Callers :
       pc[c] = "awaiting" =>
         /\ pending[c][1].accessToken \notin {Absent, EmptyString}
         /\ pending[c][1].refreshToken \notin {Absent, EmptyString}

\* a session that went through a refresh some time after the login and
\* holds both tokens
WitCompleteAfterRefresh ==
  /\ last.kind = "guard"
  /\ last.refresh = "ok"
  /\ last.at > 0
  /\ cookie # << >>
  /\ cookie[1].accessToken \notin {Absent, EmptyString}
  /\ cookie[1].refreshToken \notin {Absent, EmptyString}

(***************************************************************************)
(* Further properties of the token utilities (checked under SpecTok) and   *)
(* of safeTokenRefresh (checked under SpecExec).                           *)
(***************************************************************************)
\* C26: for every token and instant, shouldRefreshToken of the token
\* utilities equals the condition of the jwt callback.
ThmRefreshDecisionsAgree ==
  out.done => (out.shouldRefresh <=> out.callbackRefresh)

\* both decisions said yes at the first instant of the 5-minute buffer
WitRefreshDecisionsAgreeAtBoundary ==
  /\ out.done
  /\ HasExpClaim(tk)
  /\ ExpClaimMs(tk) > 5 * 60 * 1000
  /\ now = ExpClaimMs(tk) - 5 * 60 * 1000
  /\ out.shouldRefresh
  /\ out.callbackRefresh

\* a refresh response whose access token passes the validation
ValidAccess(r) ==
  /\ r.hasAccess
  /\ Len(r.access) = 3
  /\ HasExpClaim(r.access)
  /\ r.access[2].exp # 0

\* C30: the first call that resolves with a valid access token ends the
\* run, which returns that result; a run that has returned returns the
\* result of its last call, all its earlier calls failed, and it makes no
\* further call; a run that has ended with maxRetries >= 0 has called the
\* refresh function at least once.
ThmStopOnFirstSuccess ==
  /\ [](\A i \in 1..Len(ex.resolved) :
          ValidAccess(ex.resolved[i]) =>
            /\ i = Len(ex.resolved)
            /\ ex.pc = "returned"
            /\ ex.result = ex.resolved[i])
  /\ [](ex.pc = "returned" =>
          /\ ex.resolved # << >>
          /\ ex.result = ex.resolved[Len(ex.resolved)]
          /\ Len(ex.errors) = ex.calls - 1)
  /\ [](ex.pc \in {"returned", "thrown"} /\ ex.maxRetries >= 0 => ex.calls >= 1)
  /\ [][ex.pc = "returned" => ex' = ex]_vars

\* two timeouts, then a valid result, returned after the third call of a
\* run with three retries
WitStopOnFirstSuccess ==
  /\ ex.pc = "returned"
  /\ ex.maxRetries = 3
  /\ ex.calls = 3
  /\ Len(ex.errors) = 2
  /\ ex.result.hasAccess
  /\ Len(ex.result.access) = 3

ThmRedirectStaysInApp ==
  (/\ last.kind = "guard"
   /\ last.pathname = <<"/", "login">>
   /\ SessState(last.after) = "Authenticated"
   /\ last.decision.kind = "redirect")
    => last.decision.origin = "app"

====
